---- MODULE Spec2Model ----
(***************************************************************************)
(* NSFileManager / NSDirectoryEnumerator of touchHLE                        *)
(* (src/frameworks/foundation/ns_file_manager.rs) as a state machine.       *)
(*                                                                         *)
(* A guest path string is the sequence of its '/'-separated components     *)
(* ("/a/../b" is <<"", "a", "..", "b">>, "" is <<"">>); a guest object     *)
(* pointer is a class with a serial number.  The guest filesystem          *)
(* (crate::fs), the Objective-C runtime,                                   *)
(* NSString conversion and NSData file access are not part of the          *)
(* sources at hand and are modelled from the design document.              *)
(***************************************************************************)
EXTENDS Integers, Sequences, FiniteSets, TLC

VARIABLES
  fs,               \* the guest filesystem: location -> node
  wd,               \* its working directory
  default_manager,  \* State.default_manager: nil while None
  objects,          \* the number of NSFileManager instances allocated so far
  enums,            \* the NSDirectoryEnumerator host objects, in creation order
  last,             \* the latest call: its arguments, result and effects
  home,             \* the guest filesystem's home directory
  resolved          \* search-path directory -> its first resolution, and where it was made

vars == <<fs, wd, default_manager, objects, enums, last, home, resolved>>

\* ------------------------------------------------------------------ bounds
\* Number of enumerators that may be created.
MaxEnum == 2
\* Number of nextObject calls made on an enumerator after it ran dry.
MaxExtraCalls == 2

\* ------------------------------------------------------------- guest values
nil == [class |-> "nil", n |-> 0]
\* An absent NSString* argument.
nilPath == <<"nil">>
\* An absent NSData* argument.
nilData == <<-1>>

\* File names and their listing order.
NameOrder == <<"a", "b">>
Names == {NameOrder[i] : i \in 1..Len(NameOrder)}
\* The locations below the root the model's storage can hold.
Nodes == {<<n>> : n \in Names} \cup {<<n, m>> : n \in Names, m \in Names}
\* File contents.
Contents == {<<>>, <<7>>}

\* ---------------------------------------------------- guest filesystem (fs)
NoNode == [kind |-> "none", data |-> <<>>]
DirNode == [kind |-> "dir", data |-> <<>>]
FileNode(d) == [kind |-> "file", data |-> d]

IsAbsolute(path) == Len(path) >= 2 /\ path[1] = ""

\* A location: segs below the root, after climbing `up` levels above it.
\* Walking the components of a path: ".." at the root stays at the root.
RECURSIVE Walk(_, _)
Walk(comps, loc) ==
  IF comps = <<>> THEN loc
  ELSE LET c == Head(comps)
           nxt == IF c = "" \/ c = "." THEN loc
                  ELSE IF c = ".."
                       THEN IF loc.segs = <<>> THEN loc
                            ELSE [loc EXCEPT !.segs = SubSeq(loc.segs, 1, Len(loc.segs) - 1)]
                       ELSE [loc EXCEPT !.segs = Append(loc.segs, c)]
       IN Walk(Tail(comps), nxt)

\* Walking the components with ".." at the root climbing above it.
RECURSIVE Walk_unclamped(_, _)
Walk_unclamped(comps, loc) ==
  IF comps = <<>> THEN loc
  ELSE LET c == Head(comps)
           nxt == IF c = "" \/ c = "." THEN loc
                  ELSE IF c = ".."
                       THEN IF loc.segs = <<>> THEN [loc EXCEPT !.up = @ + 1]
                            ELSE [loc EXCEPT !.segs = SubSeq(loc.segs, 1, Len(loc.segs) - 1)]
                       ELSE [loc EXCEPT !.segs = Append(loc.segs, c)]
       IN Walk_unclamped(Tail(comps), nxt)

resolve_path_unclamped(path, cwd) ==
  Walk_unclamped(path, [up |-> 0, segs |-> IF IsAbsolute(path) THEN <<>> ELSE cwd])

resolve_path(path, cwd) ==
  Walk(path, [up |-> 0, segs |-> IF IsAbsolute(path) THEN <<>> ELSE cwd])

Lookup(f, loc) ==
  IF loc.up > 0 THEN NoNode
  ELSE IF loc.segs = <<>> THEN DirNode
  ELSE IF loc.segs \in Nodes THEN f[loc.segs]
  ELSE NoNode

Parent(loc) == [loc EXCEPT !.segs = SubSeq(loc.segs, 1, Len(loc.segs) - 1)]

fs_exists(f, loc) == Lookup(f, loc).kind # "none"

fs_is_file(f, loc) == Lookup(f, loc).kind = "file"

fs_is_dir(f, loc) == Lookup(f, loc).kind = "dir"

HasChildren(f, loc) ==
  \E n \in Nodes : Len(n) = Len(loc.segs) + 1
                   /\ SubSeq(n, 1, Len(loc.segs)) = loc.segs
                   /\ f[n].kind # "none"

\* Whether a new entry may be placed at loc.
CanPlace(f, loc) ==
  /\ loc.up = 0
  /\ loc.segs \in Nodes
  /\ fs_is_dir(f, Parent(loc))

fs_read(f, loc) ==
  IF fs_is_file(f, loc) THEN [ok |-> TRUE, data |-> Lookup(f, loc).data]
  ELSE [ok |-> FALSE, data |-> <<>>]

fs_write(f, loc, data) ==
  IF CanPlace(f, loc) /\ ~fs_is_dir(f, loc)
  THEN [ok |-> TRUE, fs |-> [f EXCEPT ![loc.segs] = FileNode(data)]]
  ELSE [ok |-> FALSE, fs |-> f]

fs_create_dir(f, loc) ==
  IF CanPlace(f, loc) /\ ~fs_exists(f, loc)
  THEN [ok |-> TRUE, fs |-> [f EXCEPT ![loc.segs] = DirNode]]
  ELSE [ok |-> FALSE, fs |-> f]

fs_remove(f, loc) ==
  IF loc.up = 0 /\ loc.segs \in Nodes /\ fs_exists(f, loc) /\ ~HasChildren(f, loc)
  THEN [ok |-> TRUE, fs |-> [f EXCEPT ![loc.segs] = NoNode]]
  ELSE [ok |-> FALSE, fs |-> f]

\* The names of the entries of directory `segs`, in listing order.
RECURSIVE ChildNames(_, _, _)
ChildNames(f, segs, i) ==
  IF i > Len(NameOrder) THEN <<>>
  ELSE LET c == Append(segs, NameOrder[i])
       IN (IF c \in Nodes /\ f[c].kind # "none" THEN <<NameOrder[i]>> ELSE <<>>)
          \o ChildNames(f, segs, i + 1)

fs_enumerate(f, loc) ==
  IF fs_is_dir(f, loc) THEN [ok |-> TRUE, names |-> ChildNames(f, loc.segs, 1)]
  ELSE [ok |-> FALSE, names |-> <<>>]

\* The subtree below `segs`, depth first, as paths relative to `base`.
RECURSIVE Subtree(_, _, _, _)
Subtree(f, base, segs, i) ==
  IF i > Len(NameOrder) THEN <<>>
  ELSE LET c == Append(segs, NameOrder[i])
           rel == SubSeq(c, Len(base) + 1, Len(c))
       IN (IF c \in Nodes /\ f[c].kind # "none"
           THEN <<rel>> \o (IF f[c].kind = "dir" THEN Subtree(f, base, c, 1) ELSE <<>>)
           ELSE <<>>)
          \o Subtree(f, base, segs, i + 1)

fs_enumerate_recursive(f, loc) ==
  IF fs_is_dir(f, loc) THEN [ok |-> TRUE, paths |-> Subtree(f, loc.segs, loc.segs, 1)]
  ELSE [ok |-> FALSE, paths |-> <<>>]

\* Opening a file and seeking to its end.
fs_open_size(f, loc) ==
  IF fs_is_file(f, loc) THEN [ok |-> TRUE, size |-> Len(Lookup(f, loc).data)]
  ELSE [ok |-> FALSE, size |-> 0]

\* The empty path string, which attributesOfItemAtPath:error: opens for nil.
emptyPath == <<"">>

\* What Fs::open of a guest path, followed by the seek to its end, may answer.
\* The empty path is handed to the engine like any other; whether the engine
\* resolves it as a relative path without components (to the working
\* directory) or refuses it is the engine's choice.
fs_open(f, path, cwd) ==
  {fs_open_size(f, resolve_path(path, cwd))}
    \cup (IF path = emptyPath THEN {[ok |-> FALSE, size |-> 0]} ELSE {})

fs_change_working_directory(f, loc) ==
  IF fs_is_dir(f, loc) THEN [ok |-> TRUE, wd |-> loc.segs] ELSE [ok |-> FALSE, wd |-> <<>>]

\* One storage-engine call, as logged in last.fsCalls.
Call(fn, loc) == [fn |-> fn, up |-> loc.up, segs |-> loc.segs]

\* ------------------------------------------------------------ search paths
NSApplicationDirectory == 1
NSLibraryDirectory == 5
NSDocumentDirectory == 9
NSApplicationSupportDirectory == 14
NSUserDomainMask == 1

\* crate::fs::APPLICATIONS, the directory the applications are installed in.
APPLICATIONS == <<"", "Applications">>

\* GuestPathBuf::join
join(path, component) == Append(path, component)

\* Home directories the guest filesystem may be set up with.
Homes == { <<"", "Applications", "App1">>, <<"", "User">> }

\* The search-path directories whose resolutions are remembered.
Remembered ==
  {NSApplicationDirectory, NSLibraryDirectory, NSDocumentDirectory,
   NSApplicationSupportDirectory}

NoResolution == [d \in Remembered |-> [val |-> <<>>, wd |-> <<>>]]

\* ------------------------------------------------------------ NSString
\* ns_string::to_rust_string borrows the string's host object: there is none for
\* nil and the conversion panics (attributesOfItemAtPath:error: guards against it).
to_rust_string(path) == [ok |-> path # nilPath, s |-> path]

\* ------------------------------------------------------------ call record
NoCall ==
  [op |-> "none", path |-> nilPath, path2 |-> nilPath, data |-> nilData,
   attrs |-> FALSE, flag |-> FALSE, ptr |-> FALSE, dir |-> 0, mask |-> 0,
   ret |-> "void", obj |-> nil, val |-> <<>>, size |-> 0,
   isDirOut |-> "unwritten", errOut |-> "unwritten", fsCalls |-> <<>>]

Bool(b) == IF b THEN "true" ELSE "false"

\* ------------------------------------------------------------ inputs
\* Guest path strings handed to the facade.
PathInputs ==
  { <<"", "a">>, <<"", "b">>, <<"", "a", "b">>,
    <<"", "..", "a">>, <<"", "a", "..", "..", "b">>, <<"b">> }
PathArgs == PathInputs \cup {nilPath}
\* Directories the guest changes into.
DirInputs == { <<"", "a">>, <<"", "">>, <<"", "a", "..">>, nilPath }
DataArgs == Contents \cup {nilData}
\* Directories the guest enumerates.
EnumInputs == { <<"", "">>, <<"", "a">>, nilPath }
\* The file operations that run between enumeration steps: the files they create
\* and remove, the directories they create and list, the copies they make.
EnumFiles == { <<"", "a", "b">>, <<"", "b">> }
EnumDirs == { <<"", "a">> }
EnumCopies == { << <<"", "b">>, <<"", "a", "b">> >> }
\* Calls of NSSearchPathForDirectoriesInDomains: directory, domain mask, tilde flag.
ResolveInputs ==
  { <<NSApplicationDirectory, NSUserDomainMask, TRUE>>,
    <<NSLibraryDirectory, NSUserDomainMask, TRUE>>,
    <<NSDocumentDirectory, NSUserDomainMask, TRUE>>,
    <<NSApplicationSupportDirectory, NSUserDomainMask, TRUE>>,
    <<13, NSUserDomainMask, TRUE>>,
    <<NSDocumentDirectory, 2, TRUE>>,
    <<NSDocumentDirectory, NSUserDomainMask, FALSE>>,
    <<NSApplicationSupportDirectory, 3, FALSE>> }
\* The operations that run between resolutions.
ResolveDirs == { <<"", "a">> }
\* The operations that run beside two enumerators of one directory.
OwnDirs == { <<"", "">> }
OwnFiles == { <<"", "b">> }
OwnCopies == { << <<"", "b">>, <<"", "a">> >> }
\* Third arguments of the legacy createDirectory call shape.
LegacyThird == { nilPath, <<"", "a">> }

\* ------------------------------------------------------------ NSFileManager
\* A call that ended in a panic (an assertion, todo!()) ends the process.
Alive == last.ret # "fatal"

Init ==
  /\ fs \in {f \in [Nodes -> {NoNode, DirNode}] :
              \A n \in Nodes : f[n].kind # "none" => n = <<"a">>}
  /\ wd = <<>>
  /\ default_manager = nil
  /\ objects = 0
  /\ enums = <<>>
  /\ last = NoCall
  /\ home = <<"", "User">>
  /\ resolved = NoResolution

\* The same, for any home directory.
InitResolve ==
  /\ fs \in {f \in [Nodes -> {NoNode, DirNode}] :
              \A n \in Nodes : f[n].kind # "none" => n = <<"a">>}
  /\ wd = <<>>
  /\ default_manager = nil
  /\ objects = 0
  /\ enums = <<>>
  /\ last = NoCall
  /\ home \in Homes
  /\ resolved = NoResolution

\* NSSearchPathForDirectoriesInDomains without the look at expand_tilde.
NSSearchPathForDirectoriesInDomains_lax(directory, domain_mask, expand_tilde) ==
  LET call == [NoCall EXCEPT !.op = "NSSearchPathForDirectoriesInDomains",
                             !.dir = directory, !.mask = domain_mask,
                             !.flag = expand_tilde]
      known == directory \in Remembered
      dir == IF directory = NSApplicationDirectory THEN APPLICATIONS
             ELSE IF directory = NSDocumentDirectory \/ directory = NSLibraryDirectory
             THEN join(home, "Documents")
             ELSE join(join(home, "Library"), "Application Support")
  IN /\ Alive
     /\ IF domain_mask # NSUserDomainMask \/ ~known
        THEN /\ last' = [call EXCEPT !.ret = "fatal"]
             /\ UNCHANGED resolved
        ELSE /\ last' = [call EXCEPT !.ret = "list", !.val = <<dir>>]
             /\ resolved' = [resolved EXCEPT ![directory] =
                               IF @.val = <<>> THEN [val |-> <<dir>>, wd |-> wd]
                               ELSE @]
     /\ UNCHANGED <<fs, wd, default_manager, objects, enums, home>>

\* NSSearchPathForDirectoriesInDomains that joins onto the working directory.
NSSearchPathForDirectoriesInDomains_cwd(directory, domain_mask, expand_tilde) ==
  LET call == [NoCall EXCEPT !.op = "NSSearchPathForDirectoriesInDomains",
                             !.dir = directory, !.mask = domain_mask,
                             !.flag = expand_tilde]
      known == directory \in Remembered
      cwd == <<"">> \o wd
      dir == IF directory = NSApplicationDirectory THEN APPLICATIONS
             ELSE IF directory = NSDocumentDirectory \/ directory = NSLibraryDirectory
             THEN join(cwd, "Documents")
             ELSE join(join(cwd, "Library"), "Application Support")
  IN /\ Alive
     /\ IF domain_mask # NSUserDomainMask \/ ~expand_tilde \/ ~known
        THEN /\ last' = [call EXCEPT !.ret = "fatal"]
             /\ UNCHANGED resolved
        ELSE /\ last' = [call EXCEPT !.ret = "list", !.val = <<dir>>]
             /\ resolved' = [resolved EXCEPT ![directory] =
                               IF @.val = <<>> THEN [val |-> <<dir>>, wd |-> wd]
                               ELSE @]
     /\ UNCHANGED <<fs, wd, default_manager, objects, enums, home>>

\* NSSearchPathForDirectoriesInDomains(directory, domain_mask, expand_tilde)
NSSearchPathForDirectoriesInDomains(directory, domain_mask, expand_tilde) ==
  LET call == [NoCall EXCEPT !.op = "NSSearchPathForDirectoriesInDomains",
                             !.dir = directory, !.mask = domain_mask,
                             !.flag = expand_tilde]
      known == directory \in Remembered
      dir == IF directory = NSApplicationDirectory THEN APPLICATIONS
             ELSE IF directory = NSDocumentDirectory \/ directory = NSLibraryDirectory
             THEN join(home, "Documents")
             ELSE join(join(home, "Library"), "Application Support")
  IN /\ Alive
     /\ IF domain_mask # NSUserDomainMask \/ ~expand_tilde \/ ~known
        THEN /\ last' = [call EXCEPT !.ret = "fatal"]
             /\ UNCHANGED resolved
        ELSE /\ last' = [call EXCEPT !.ret = "list", !.val = <<dir>>]
             /\ resolved' = [resolved EXCEPT ![directory] =
                               IF @.val = <<>> THEN [val |-> <<dir>>, wd |-> wd]
                               ELSE @]
     /\ UNCHANGED <<fs, wd, default_manager, objects, enums, home>>

\* NSHomeDirectory()
NSHomeDirectory ==
  /\ Alive
  /\ last' = [NoCall EXCEPT !.op = "NSHomeDirectory", !.ret = "str", !.val = home]
  /\ UNCHANGED <<fs, wd, default_manager, objects, enums, home, resolved>>

\* NSTemporaryDirectory()
NSTemporaryDirectory ==
  /\ Alive
  /\ last' = [NoCall EXCEPT !.op = "NSTemporaryDirectory", !.ret = "str",
                             !.val = join(home, "tmp")]
  /\ UNCHANGED <<fs, wd, default_manager, objects, enums, home, resolved>>

\* defaultManager without the look at the cached instance: every call allocates.
defaultManager_uncached ==
  LET new == [class |-> "NSFileManager", n |-> objects + 1]
  IN /\ Alive
     /\ objects' = objects + 1
     /\ default_manager' = new
     /\ last' = [NoCall EXCEPT !.op = "defaultManager", !.ret = "obj", !.obj = new]
     /\ UNCHANGED <<fs, wd, enums, home, resolved>>

\* + (id)defaultManager
defaultManager ==
  /\ Alive
  /\ IF default_manager # nil
     THEN /\ last' = [NoCall EXCEPT !.op = "defaultManager", !.ret = "obj",
                                     !.obj = default_manager]
          /\ UNCHANGED <<default_manager, objects>>
     ELSE LET new == [class |-> "NSFileManager", n |-> objects + 1]
          IN /\ objects' = objects + 1
             /\ default_manager' = new
             /\ last' = [NoCall EXCEPT !.op = "defaultManager", !.ret = "obj", !.obj = new]
  /\ UNCHANGED <<fs, wd, enums, home, resolved>>

\* - (id)currentDirectoryPath
currentDirectoryPath ==
  /\ Alive
  /\ last' = [NoCall EXCEPT !.op = "currentDirectoryPath", !.ret = "str", !.val = wd]
  /\ UNCHANGED <<fs, wd, default_manager, objects, enums, home, resolved>>

\* - (bool)changeCurrentDirectoryPath:
changeCurrentDirectoryPath(path) ==
  LET c == to_rust_string(path)
      loc == resolve_path(c.s, wd)
      r == fs_change_working_directory(fs, loc)
      call == [NoCall EXCEPT !.op = "changeCurrentDirectoryPath", !.path = path]
  IN /\ Alive
     /\ IF ~c.ok
        THEN /\ last' = [call EXCEPT !.ret = "fatal"]
             /\ UNCHANGED wd
        ELSE /\ wd' = IF r.ok THEN r.wd ELSE wd
             /\ last' = [call EXCEPT !.ret = Bool(r.ok),
                                     !.fsCalls = <<Call("change_working_directory", loc)>>]
     /\ UNCHANGED <<fs, default_manager, objects, enums, home, resolved>>

\* What fileExistsAtPath: and fileExistsAtPath:isDirectory: compute in the current state.
res_exists(path) ==
  IF path = nilPath THEN FALSE ELSE fs_exists(fs, resolve_path(path, wd))

res_is_dir(path) ==
  IF path = nilPath THEN FALSE ELSE ~fs_is_file(fs, resolve_path(path, wd))

\* - (bool)fileExistsAtPath:
fileExistsAtPath(path) ==
  /\ Alive
  /\ last' = [NoCall EXCEPT !.op = "fileExistsAtPath", !.path = path,
                             !.ret = Bool(res_exists(path)),
                             !.fsCalls = IF path = nilPath THEN <<>>
                                         ELSE <<Call("exists", resolve_path(path, wd))>>]
  /\ UNCHANGED <<fs, wd, default_manager, objects, enums, home, resolved>>

\* fileExistsAtPath:isDirectory: that reports a directory only where one is.
fileExistsAtPath_isDirectory_strict(path, ptr) ==
  LET loc == resolve_path(path, wd)
  IN /\ Alive
     /\ last' = [NoCall EXCEPT !.op = "fileExistsAtPath:isDirectory:", !.path = path,
                                !.ptr = ptr, !.ret = Bool(res_exists(path)),
                                !.isDirOut = IF ptr
                                             THEN Bool(path # nilPath /\ fs_is_dir(fs, loc))
                                             ELSE "unwritten",
                                !.fsCalls = IF path = nilPath THEN <<>>
                                            ELSE <<Call("exists", loc), Call("is_file", loc)>>]
     /\ UNCHANGED <<fs, wd, default_manager, objects, enums, home, resolved>>

\* - (bool)fileExistsAtPath:isDirectory:   (ptr: is_dir is not null)
fileExistsAtPath_isDirectory(path, ptr) ==
  LET loc == resolve_path(path, wd)
  IN /\ Alive
     /\ last' = [NoCall EXCEPT !.op = "fileExistsAtPath:isDirectory:", !.path = path,
                                !.ptr = ptr, !.ret = Bool(res_exists(path)),
                                !.isDirOut = IF ptr THEN Bool(res_is_dir(path))
                                             ELSE "unwritten",
                                !.fsCalls = IF path = nilPath THEN <<>>
                                            ELSE <<Call("exists", loc), Call("is_file", loc)>>]
     /\ UNCHANGED <<fs, wd, default_manager, objects, enums, home, resolved>>

\* NSData writeToFile:atomically: converts the path again and writes the bytes.
writeToFile(bytes, path) ==
  LET c == to_rust_string(path)
      loc == resolve_path(c.s, wd)
      w == fs_write(fs, loc, bytes)
  IN IF c.ok THEN [fatal |-> FALSE, ok |-> w.ok, fs |-> w.fs, calls |-> <<Call("write", loc)>>]
     ELSE [fatal |-> TRUE, ok |-> FALSE, fs |-> fs, calls |-> <<>>]

\* createFileAtPath that answers true for whatever is at the path, a directory too.
createFileAtPath_anyentry(path, data, attributes) ==
  LET c == to_rust_string(path)
      loc == resolve_path(c.s, wd)
      w == writeToFile(IF data = nilData THEN <<>> ELSE data, path)
      call == [NoCall EXCEPT !.op = "createFileAtPath", !.path = path, !.data = data,
                             !.attrs = attributes]
  IN /\ Alive
     /\ IF ~c.ok
        THEN /\ last' = [call EXCEPT !.ret = "fatal"]
             /\ UNCHANGED fs
        ELSE IF fs_exists(fs, loc)
        THEN /\ last' = [call EXCEPT !.ret = "true", !.fsCalls = <<Call("exists", loc)>>]
             /\ UNCHANGED fs
        ELSE /\ last' = [call EXCEPT !.ret = IF w.fatal THEN "fatal" ELSE Bool(w.ok),
                                     !.fsCalls = <<Call("exists", loc)>> \o w.calls]
             /\ fs' = w.fs
     /\ UNCHANGED <<wd, default_manager, objects, enums, home, resolved>>

\* createFileAtPath without the look for a file already there: it always writes.
createFileAtPath_overwrite(path, data, attributes) ==
  LET c == to_rust_string(path)
      w == writeToFile(IF data = nilData THEN <<>> ELSE data, path)
      call == [NoCall EXCEPT !.op = "createFileAtPath", !.path = path, !.data = data,
                             !.attrs = attributes]
  IN /\ Alive
     /\ IF ~c.ok
        THEN /\ last' = [call EXCEPT !.ret = "fatal"]
             /\ UNCHANGED fs
        ELSE /\ last' = [call EXCEPT !.ret = IF w.fatal THEN "fatal" ELSE Bool(w.ok),
                                     !.fsCalls = w.calls]
             /\ fs' = w.fs
     /\ UNCHANGED <<wd, default_manager, objects, enums, home, resolved>>

\* - (bool)createFileAtPath:contents:attributes:
\* (attributes: the attributes dictionary is not nil)
createFileAtPath(path, data, attributes) ==
  LET c == to_rust_string(path)
      loc == resolve_path(c.s, wd)
      w == writeToFile(IF data = nilData THEN <<>> ELSE data, path)
      call == [NoCall EXCEPT !.op = "createFileAtPath", !.path = path, !.data = data,
                             !.attrs = attributes]
  IN /\ Alive
     /\ IF ~c.ok
        THEN /\ last' = [call EXCEPT !.ret = "fatal"]
             /\ UNCHANGED fs
        ELSE IF fs_is_file(fs, loc)
        THEN /\ last' = [call EXCEPT !.ret = "true", !.fsCalls = <<Call("is_file", loc)>>]
             /\ UNCHANGED fs
        ELSE /\ last' = [call EXCEPT !.ret = IF w.fatal THEN "fatal" ELSE Bool(w.ok),
                                     !.fsCalls = <<Call("is_file", loc)>> \o w.calls]
             /\ fs' = w.fs
     /\ UNCHANGED <<wd, default_manager, objects, enums, home, resolved>>

\* removeItemAtPath that answers false on failure whether or not an error is asked for.
removeItemAtPath_silent(path, ptr) ==
  LET c == to_rust_string(path)
      loc == resolve_path(c.s, wd)
      r == fs_remove(fs, loc)
      call == [NoCall EXCEPT !.op = "removeItemAtPath", !.path = path, !.ptr = ptr]
  IN /\ Alive
     /\ IF ~c.ok
        THEN /\ last' = [call EXCEPT !.ret = "fatal"]
             /\ UNCHANGED fs
        ELSE /\ last' = [call EXCEPT !.ret = Bool(r.ok), !.fsCalls = <<Call("remove", loc)>>]
             /\ fs' = r.fs
     /\ UNCHANGED <<wd, default_manager, objects, enums, home, resolved>>

\* - (bool)removeItemAtPath:error:   (ptr: error is not null)
removeItemAtPath(path, ptr) ==
  LET c == to_rust_string(path)
      loc == resolve_path(c.s, wd)
      r == fs_remove(fs, loc)
      call == [NoCall EXCEPT !.op = "removeItemAtPath", !.path = path, !.ptr = ptr]
  IN /\ Alive
     /\ IF ~c.ok
        THEN /\ last' = [call EXCEPT !.ret = "fatal"]
             /\ UNCHANGED fs
        ELSE /\ last' = [call EXCEPT !.ret = IF r.ok THEN "true"
                                             ELSE IF ptr THEN "fatal" ELSE "false",
                                     !.fsCalls = <<Call("remove", loc)>>]
             /\ fs' = r.fs
     /\ UNCHANGED <<wd, default_manager, objects, enums, home, resolved>>

\* - (bool)createDirectoryAtPath:withIntermediateDirectories:path:error:
\* Its first argument is the one the code names `attributes`, its third `path`.
createDirectoryAtPath_path(attributes, createIntermediates, path) ==
  LET c == to_rust_string(attributes)
      loc == resolve_path(c.s, wd)
      r == fs_create_dir(fs, loc)
      call == [NoCall EXCEPT !.op = "createDirectoryAtPath:path:", !.path = attributes,
                             !.path2 = path, !.flag = createIntermediates]
  IN /\ Alive
     /\ IF attributes # nilPath \/ ~createIntermediates \/ ~c.ok
        THEN /\ last' = [call EXCEPT !.ret = "fatal"]
             /\ UNCHANGED fs
        ELSE /\ last' = [call EXCEPT !.ret = Bool(r.ok),
                                     !.fsCalls = <<Call("create_dir", loc)>>]
             /\ fs' = r.fs
     /\ UNCHANGED <<wd, default_manager, objects, enums, home, resolved>>

\* createDirectoryAtPath that answers true whatever the storage engine answered.
createDirectoryAtPath_optimistic(path, createIntermediates, attributes) ==
  LET c == to_rust_string(path)
      loc == resolve_path(c.s, wd)
      r == fs_create_dir(fs, loc)
      call == [NoCall EXCEPT !.op = "createDirectoryAtPath:attributes:", !.path = path,
                             !.attrs = attributes, !.flag = createIntermediates]
  IN /\ Alive
     /\ IF attributes \/ ~createIntermediates \/ ~c.ok
        THEN /\ last' = [call EXCEPT !.ret = "fatal"]
             /\ UNCHANGED fs
        ELSE /\ last' = [call EXCEPT !.ret = "true",
                                     !.fsCalls = <<Call("create_dir", loc)>>]
             /\ fs' = r.fs
     /\ UNCHANGED <<wd, default_manager, objects, enums, home, resolved>>

\* - (bool)createDirectoryAtPath:withIntermediateDirectories:attributes:error:
\* (attributes: the attributes dictionary is not nil)
createDirectoryAtPath(path, createIntermediates, attributes) ==
  LET c == to_rust_string(path)
      loc == resolve_path(c.s, wd)
      r == fs_create_dir(fs, loc)
      call == [NoCall EXCEPT !.op = "createDirectoryAtPath:attributes:", !.path = path,
                             !.attrs = attributes, !.flag = createIntermediates]
  IN /\ Alive
     /\ IF attributes \/ ~createIntermediates \/ ~c.ok
        THEN /\ last' = [call EXCEPT !.ret = "fatal"]
             /\ UNCHANGED fs
        ELSE /\ last' = [call EXCEPT !.ret = Bool(r.ok),
                                     !.fsCalls = <<Call("create_dir", loc)>>]
             /\ fs' = r.fs
     /\ UNCHANGED <<wd, default_manager, objects, enums, home, resolved>>

\* - (id)enumeratorAtPath:
enumeratorAtPath(path) ==
  LET c == to_rust_string(path)
      loc == resolve_path(c.s, wd)
      r == fs_enumerate_recursive(fs, loc)
      new == [class |-> "NSDirectoryEnumerator", n |-> Len(enums) + 1]
      call == [NoCall EXCEPT !.op = "enumeratorAtPath", !.path = path]
  IN /\ Alive
     /\ IF ~c.ok
        THEN /\ last' = [call EXCEPT !.ret = "fatal"]
             /\ UNCHANGED enums
        ELSE IF ~r.ok
        THEN /\ last' = [call EXCEPT !.ret = "nil",
                                     !.fsCalls = <<Call("enumerate_recursive", loc)>>]
             /\ UNCHANGED enums
        ELSE /\ Len(enums) < MaxEnum
             /\ enums' = Append(enums, [id |-> new, iterator |-> r.paths,
                                        base |-> loc.segs, snapshot |-> r.paths,
                                        calls |-> 0])
             /\ last' = [call EXCEPT !.ret = "obj", !.obj = new,
                                     !.fsCalls = <<Call("enumerate_recursive", loc)>>]
     /\ UNCHANGED <<fs, wd, default_manager, objects, home, resolved>>

\* The body of directoryContentsAtPath:, which contentsOfDirectoryAtPath:error: sends too.
directoryContents(path) ==
  LET c == to_rust_string(path)
      loc == resolve_path(c.s, wd)
      r == fs_enumerate(fs, loc)
  IN IF ~c.ok THEN [ret |-> "fatal", val |-> <<>>, calls |-> <<>>]
     ELSE [ret |-> IF r.ok THEN "list" ELSE "nil",
           val |-> [k \in 1..Len(r.names) |-> <<r.names[k]>>],
           calls |-> <<Call("enumerate", loc)>>]

\* - (id)directoryContentsAtPath:
directoryContentsAtPath(path) ==
  LET d == directoryContents(path)
  IN /\ Alive
     /\ last' = [NoCall EXCEPT !.op = "directoryContentsAtPath", !.path = path,
                                !.ret = d.ret, !.val = d.val, !.fsCalls = d.calls]
     /\ UNCHANGED <<fs, wd, default_manager, objects, enums, home, resolved>>

\* - (id)contentsOfDirectoryAtPath:error:   (ptr: error is not null)
contentsOfDirectoryAtPath(path, ptr) ==
  LET d == directoryContents(path)
  IN /\ Alive
     /\ last' = [NoCall EXCEPT !.op = "contentsOfDirectoryAtPath", !.path = path,
                                !.ptr = ptr,
                                !.ret = IF d.ret = "nil" /\ ptr THEN "fatal" ELSE d.ret,
                                !.val = d.val, !.fsCalls = d.calls]
     /\ UNCHANGED <<fs, wd, default_manager, objects, enums, home, resolved>>

\* - (id)contentsAtPath:   (NSData dataWithContentsOfFile: reads the file, nil on failure)
contentsAtPath(path) ==
  LET loc == resolve_path(path, wd)
      r == fs_read(fs, loc)
      call == [NoCall EXCEPT !.op = "contentsAtPath", !.path = path]
  IN /\ Alive
     /\ IF path = nilPath \/ ~IsAbsolute(path)
        THEN last' = [call EXCEPT !.ret = "fatal"]
        ELSE last' = [call EXCEPT !.ret = IF r.ok THEN "data" ELSE "nil", !.val = r.data,
                                  !.fsCalls = <<Call("read", loc)>>]
     /\ UNCHANGED <<fs, wd, default_manager, objects, enums, home, resolved>>

\* copyItemAtPath that takes the source away once it is copied.
copyItemAtPath_move(src, dst) ==
  LET s == to_rust_string(src)
      d == to_rust_string(dst)
      sloc == resolve_path(s.s, wd)
      dloc == resolve_path(d.s, wd)
      data == fs_read(fs, sloc)
      w == fs_write(fs, dloc, data.data)
      call == [NoCall EXCEPT !.op = "copyItemAtPath", !.path = src, !.path2 = dst]
  IN /\ Alive
     /\ IF ~s.ok \/ ~d.ok
        THEN /\ last' = [call EXCEPT !.ret = "fatal"]
             /\ UNCHANGED fs
        ELSE IF ~data.ok
        THEN /\ last' = [call EXCEPT !.ret = "fatal", !.fsCalls = <<Call("read", sloc)>>]
             /\ UNCHANGED fs
        ELSE /\ last' = [call EXCEPT !.ret = IF w.ok THEN "true" ELSE "fatal",
                                     !.fsCalls = <<Call("read", sloc), Call("write", dloc)>>]
             /\ fs' = IF w.ok /\ sloc # dloc THEN fs_remove(w.fs, sloc).fs ELSE w.fs
     /\ UNCHANGED <<wd, default_manager, objects, enums, home, resolved>>

\* copyItemAtPath that copies nothing from an unreadable source and answers true.
copyItemAtPath_lenient(src, dst) ==
  LET s == to_rust_string(src)
      d == to_rust_string(dst)
      sloc == resolve_path(s.s, wd)
      dloc == resolve_path(d.s, wd)
      data == fs_read(fs, sloc)
      w == fs_write(fs, dloc, data.data)
      call == [NoCall EXCEPT !.op = "copyItemAtPath", !.path = src, !.path2 = dst]
  IN /\ Alive
     /\ IF ~s.ok \/ ~d.ok
        THEN /\ last' = [call EXCEPT !.ret = "fatal"]
             /\ UNCHANGED fs
        ELSE /\ last' = [call EXCEPT !.ret = IF w.ok THEN "true" ELSE "fatal",
                                     !.fsCalls = <<Call("read", sloc), Call("write", dloc)>>]
             /\ fs' = w.fs
     /\ UNCHANGED <<wd, default_manager, objects, enums, home, resolved>>

\* - (bool)copyItemAtPath:toPath:error:
copyItemAtPath(src, dst) ==
  LET s == to_rust_string(src)
      d == to_rust_string(dst)
      sloc == resolve_path(s.s, wd)
      dloc == resolve_path(d.s, wd)
      data == fs_read(fs, sloc)
      w == fs_write(fs, dloc, data.data)
      call == [NoCall EXCEPT !.op = "copyItemAtPath", !.path = src, !.path2 = dst]
  IN /\ Alive
     /\ IF ~s.ok \/ ~d.ok
        THEN /\ last' = [call EXCEPT !.ret = "fatal"]
             /\ UNCHANGED fs
        ELSE IF ~data.ok
        THEN /\ last' = [call EXCEPT !.ret = "fatal", !.fsCalls = <<Call("read", sloc)>>]
             /\ UNCHANGED fs
        ELSE /\ last' = [call EXCEPT !.ret = IF w.ok THEN "true" ELSE "fatal",
                                     !.fsCalls = <<Call("read", sloc), Call("write", dloc)>>]
             /\ fs' = w.fs
     /\ UNCHANGED <<wd, default_manager, objects, enums, home, resolved>>

\* attributesOfItemAtPath:error: that reports no size.
attributesOfItemAtPath_zero(path, ptr) ==
  LET str == IF path # nilPath THEN path ELSE emptyPath
      loc == resolve_path(str, wd)
  IN /\ Alive
     /\ last' = [NoCall EXCEPT !.op = "attributesOfItemAtPath", !.path = path, !.ptr = ptr,
                                !.ret = "dict", !.fsCalls = <<Call("open", loc)>>]
     /\ UNCHANGED <<fs, wd, default_manager, objects, enums, home, resolved>>

\* - (id)attributesOfItemAtPath:error:   (ptr: error is not null)
attributesOfItemAtPath(path, ptr) ==
  LET str == IF path # nilPath THEN path ELSE emptyPath
      loc == resolve_path(str, wd)
  IN /\ Alive
     /\ \E f \in fs_open(fs, str, wd) :
          last' = [NoCall EXCEPT !.op = "attributesOfItemAtPath", !.path = path,
                                 !.ptr = ptr, !.ret = "dict",
                                 !.size = IF f.ok THEN f.size ELSE 0,
                                 !.fsCalls = <<Call("open", loc)>>]
     /\ UNCHANGED <<fs, wd, default_manager, objects, enums, home, resolved>>

\* ---------------------------------------------------- NSDirectoryEnumerator
\* nextObject that takes the entry at the back of the queue.
nextObject_back(i) ==
  LET e == enums[i]
  IN /\ Alive
     /\ e.calls < Len(e.snapshot) + MaxExtraCalls
     /\ IF e.iterator = <<>>
        THEN /\ enums' = [enums EXCEPT ![i].calls = @ + 1]
             /\ last' = [NoCall EXCEPT !.op = "nextObject", !.obj = e.id, !.ret = "nil"]
        ELSE /\ enums' = [enums EXCEPT ![i].iterator = SubSeq(@, 1, Len(@) - 1),
                                       ![i].calls = @ + 1]
             /\ last' = [NoCall EXCEPT !.op = "nextObject", !.obj = e.id, !.ret = "str",
                                       !.val = e.iterator[Len(e.iterator)]]
     /\ UNCHANGED <<fs, wd, default_manager, objects, home, resolved>>

\* nextObject on a queue shared by the enumerators of one directory.
nextObject_shared(i) ==
  LET e == enums[i]
  IN /\ Alive
     /\ e.calls < Len(e.snapshot) + MaxExtraCalls
     /\ enums' = [k \in DOMAIN enums |->
                    IF k = i
                    THEN [e EXCEPT !.iterator = IF @ = <<>> THEN @ ELSE Tail(@),
                                   !.calls = @ + 1]
                    ELSE IF enums[k].base = e.base
                    THEN [enums[k] EXCEPT !.iterator = IF @ = <<>> THEN @ ELSE Tail(@)]
                    ELSE enums[k]]
     /\ last' = IF e.iterator = <<>>
                THEN [NoCall EXCEPT !.op = "nextObject", !.obj = e.id, !.ret = "nil"]
                ELSE [NoCall EXCEPT !.op = "nextObject", !.obj = e.id, !.ret = "str",
                                    !.val = Head(e.iterator)]
     /\ UNCHANGED <<fs, wd, default_manager, objects, home, resolved>>

\* nextObject that returns the front entry without consuming it.
nextObject_peek(i) ==
  LET e == enums[i]
  IN /\ Alive
     /\ e.calls < Len(e.snapshot) + MaxExtraCalls
     /\ enums' = [enums EXCEPT ![i].calls = @ + 1]
     /\ last' = IF e.iterator = <<>>
                THEN [NoCall EXCEPT !.op = "nextObject", !.obj = e.id, !.ret = "nil"]
                ELSE [NoCall EXCEPT !.op = "nextObject", !.obj = e.id, !.ret = "str",
                                    !.val = Head(e.iterator)]
     /\ UNCHANGED <<fs, wd, default_manager, objects, home, resolved>>

\* nextObject that reads the directory as it is now instead of the captured listing.
nextObject_live(i) ==
  LET e == enums[i]
      now == Subtree(fs, e.base, e.base, 1)
  IN /\ Alive
     /\ e.calls < Len(e.snapshot) + MaxExtraCalls
     /\ enums' = [enums EXCEPT ![i].iterator = IF @ = <<>> THEN @ ELSE Tail(@),
                               ![i].calls = @ + 1]
     /\ last' = IF e.calls >= Len(now)
                THEN [NoCall EXCEPT !.op = "nextObject", !.obj = e.id, !.ret = "nil"]
                ELSE [NoCall EXCEPT !.op = "nextObject", !.obj = e.id, !.ret = "str",
                                    !.val = now[e.calls + 1]]
     /\ UNCHANGED <<fs, wd, default_manager, objects, home, resolved>>

\* - (id)nextObject, sent to the i-th enumerator
nextObject(i) ==
  LET e == enums[i]
  IN /\ Alive
     /\ e.calls < Len(e.snapshot) + MaxExtraCalls
     /\ IF e.iterator = <<>>
        THEN /\ enums' = [enums EXCEPT ![i].calls = @ + 1]
             /\ last' = [NoCall EXCEPT !.op = "nextObject", !.obj = e.id, !.ret = "nil"]
        ELSE /\ enums' = [enums EXCEPT ![i].iterator = Tail(@), ![i].calls = @ + 1]
             /\ last' = [NoCall EXCEPT !.op = "nextObject", !.obj = e.id, !.ret = "str",
                                       !.val = Head(e.iterator)]
     /\ UNCHANGED <<fs, wd, default_manager, objects, home, resolved>>

\* ------------------------------------------------------------ specification

\* The file operations of NSFileManager.
Next ==
  \/ defaultManager
  \/ currentDirectoryPath
  \/ \E p \in DirInputs : changeCurrentDirectoryPath(p)
  \/ \E p \in PathArgs : fileExistsAtPath(p)
  \/ \E p \in PathArgs, ptr \in BOOLEAN : fileExistsAtPath_isDirectory(p, ptr)
  \/ \E p \in PathArgs, d \in DataArgs, a \in BOOLEAN :
       createFileAtPath(p, d, a)
  \/ \E p \in PathArgs, ptr \in BOOLEAN :
       removeItemAtPath(p, ptr)
  \/ \E a \in PathArgs, ci \in BOOLEAN, p \in LegacyThird :
       createDirectoryAtPath_path(a, ci, p)
  \/ \E p \in PathArgs, ci \in BOOLEAN, a \in BOOLEAN :
       createDirectoryAtPath(p, ci, a)
  \/ \E p \in PathArgs : directoryContentsAtPath(p)
  \/ \E p \in PathArgs, ptr \in BOOLEAN :
       contentsOfDirectoryAtPath(p, ptr)
  \/ \E p \in PathArgs : contentsAtPath(p)
  \/ \E s \in PathArgs, d \in PathArgs :
       copyItemAtPath(s, d)
  \/ \E p \in PathArgs, ptr \in BOOLEAN : attributesOfItemAtPath(p, ptr)

Spec == Init /\ [][Next]_vars

\* Directory enumeration, interleaved with the operations that change the storage.
NextEnum ==
  \/ \E p \in EnumFiles : createFileAtPath(p, nilData, FALSE)
  \/ \E p \in EnumFiles : removeItemAtPath(p, FALSE)
  \/ \E p \in EnumDirs : createDirectoryAtPath(p, TRUE, FALSE)
  \/ \E c \in EnumCopies : copyItemAtPath(c[1], c[2])
  \/ \E p \in EnumInputs : enumeratorAtPath(p)
  \/ \E i \in DOMAIN enums : nextObject(i)

SpecEnum == Init /\ [][NextEnum]_vars

\* Enumerators of one directory beside every kind of operation.
NextOwn ==
  \/ defaultManager
  \/ \E p \in OwnFiles : createFileAtPath(p, nilData, FALSE)
  \/ \E p \in OwnFiles : removeItemAtPath(p, FALSE)
  \/ \E p \in OwnFiles : createDirectoryAtPath(p, TRUE, FALSE)
  \/ \E c \in OwnCopies : copyItemAtPath(c[1], c[2])
  \/ \E p \in OwnDirs : directoryContentsAtPath(p)
  \/ \E p \in OwnDirs : enumeratorAtPath(p)
  \/ \E i \in DOMAIN enums : nextObject(i)

SpecOwn == Init /\ [][NextOwn]_vars

\* Search-path resolution, interleaved with file operations, enumeration and
\* changes of the working directory.
NextResolve ==
  \/ \E r \in ResolveInputs : NSSearchPathForDirectoriesInDomains(r[1], r[2], r[3])
  \/ NSHomeDirectory
  \/ NSTemporaryDirectory
  \/ \E p \in ResolveDirs : changeCurrentDirectoryPath(p)
  \/ \E p \in ResolveDirs : createDirectoryAtPath(p, TRUE, FALSE)
  \/ \E p \in ResolveDirs : removeItemAtPath(p, FALSE)
  \/ \E p \in ResolveDirs : enumeratorAtPath(p)
  \/ \E i \in DOMAIN enums : nextObject(i)

SpecResolve == InitResolve /\ [][NextResolve]_vars

\* ------------------------------------------------------------ properties
Entries(seq) == {seq[k] : k \in 1..Len(seq)}

\* The enumerator the latest nextObject was sent to.
IsNextOn(i) == last.op = "nextObject" /\ last.obj = enums[i].id

\* C1: an enumerator created over a listing of N entries returns a path from
\* exactly its first N nextObject calls and nil from call N+1 on, and once its
\* iterator is empty it stays empty.
C1_EnumeratorExhaustion ==
  /\ [](\A i \in DOMAIN enums :
          LET e == enums[i]
              N == Len(e.snapshot)
          IN /\ e.iterator = <<>> <=> e.calls >= N
             /\ IsNextOn(i) =>
                  /\ e.calls <= N => last.ret = "str"
                  /\ e.calls > N => last.ret = "nil")
  /\ [][\A i \in DOMAIN enums : enums[i].iterator = <<>> => enums'[i].iterator = <<>>]_vars

\* An enumerator over at least two entries has answered nil twice.
C1_Witness ==
  \E i \in DOMAIN enums :
    /\ Len(enums[i].snapshot) >= 2
    /\ enums[i].calls = Len(enums[i].snapshot) + 2
    /\ IsNextOn(i)
    /\ last.ret = "nil"

\* The entries now below an enumerator's directory that were not there when it
\* was created.
AddedSince(e) == Entries(Subtree(fs, e.base, e.base, 1)) \ Entries(e.snapshot)

\* C2: nextObject never returns an entry that was added to the directory after
\* the enumerator was created (one that was not in it at creation).
C2_SnapshotIsolation ==
  \A i \in DOMAIN enums :
    (IsNextOn(i) /\ last.ret = "str") => last.val \notin AddedSince(enums[i])

\* nextObject returned a path, and then nil, while the directory held an entry
\* added after the enumerator was created.
C2_Witness ==
  \E i \in DOMAIN enums :
    /\ IsNextOn(i)
    /\ last.ret = "nil"
    /\ enums[i].calls >= 2
    /\ enums[i].snapshot # <<>>
    /\ AddedSince(enums[i]) # {}

\* C3: the first defaultManager call allocates the one NSFileManager instance and
\* caches it, every call returns the cached instance, and once set the cache is
\* never written again.
C3_IdempotentSingleton ==
  /\ [](/\ objects <= 1
        /\ default_manager = nil <=> objects = 0
        /\ last.op = "defaultManager" =>
             /\ last.ret = "obj"
             /\ last.obj = default_manager
             /\ last.obj = [class |-> "NSFileManager", n |-> 1])
  /\ [][default_manager # nil => default_manager' = default_manager]_vars

\* defaultManager answered after file operations had changed the storage and the
\* working directory.
C3_Witness ==
  /\ last.op = "defaultManager"
  /\ objects = 1
  /\ wd # <<>>
  /\ \E n \in Nodes : fs[n].kind = "file"

\* The rest of the state: everything but the storage and the call record.
Rest == <<wd, default_manager, objects, enums, home, resolved>>

\* C4: whatever ".." segments a guest path carries, every location a call hands
\* to the storage engine lies at or below the root.
C4_SandboxContainment ==
  \A k \in DOMAIN last.fsCalls :
    /\ last.fsCalls[k].up = 0
    /\ \A j \in DOMAIN last.fsCalls[k].segs : last.fsCalls[k].segs[j] \in Names

\* A call given "/a/../../b" reached the storage engine, at /b.
C4_Witness ==
  /\ last.path = <<"", "a", "..", "..", "b">>
  /\ last.fsCalls # <<>>
  /\ last.fsCalls[1].segs = <<"b">>

\* C5: right after createFileAtPath with nil contents answered true,
\* fileExistsAtPath: answers true and fileExistsAtPath:isDirectory: answers true
\* with isDirectory false.
C5_CreateThenExists ==
  (last.op = "createFileAtPath" /\ last.data = nilData /\ last.ret = "true") =>
    /\ res_exists(last.path)
    /\ ~res_is_dir(last.path)

\* createFileAtPath with nil contents wrote a new, empty file.
C5_Witness ==
  /\ last.op = "createFileAtPath"
  /\ last.data = nilData
  /\ last.ret = "true"
  /\ Len(last.fsCalls) = 2
  /\ Lookup(fs, resolve_path(last.path, wd)) = FileNode(<<>>)

\* C6: createFileAtPath on a path that holds a regular file answers true and
\* changes nothing, whatever contents it is given.
C6_CreateKeepsExisting ==
  [][(/\ last'.op = "createFileAtPath"
      /\ last'.path # nilPath
      /\ fs_is_file(fs, resolve_path(last'.path, wd)))
     => (last'.ret = "true" /\ fs' = fs /\ UNCHANGED Rest)]_vars

\* createFileAtPath was given the contents <<7>> for a path holding an empty file,
\* answered true, and the file is still empty.
C6_Witness ==
  /\ last.op = "createFileAtPath"
  /\ last.data = <<7>>
  /\ last.ret = "true"
  /\ Len(last.fsCalls) = 1
  /\ Lookup(fs, resolve_path(last.path, wd)) = FileNode(<<>>)

\* C7: when the storage engine refuses, removeItemAtPath:error: and
\* contentsOfDirectoryAtPath:error: panic if an error is asked for, answer
\* false (nil for the listing) if not, and never write the error.
C7_ErrorRequestedIsFatal ==
  [][/\ (/\ last'.op = "removeItemAtPath"
         /\ last'.path # nilPath
         /\ ~fs_remove(fs, resolve_path(last'.path, wd)).ok)
        => /\ last'.ret = (IF last'.ptr THEN "fatal" ELSE "false")
           /\ last'.errOut = "unwritten"
           /\ fs' = fs
     /\ (/\ last'.op = "contentsOfDirectoryAtPath"
         /\ last'.path # nilPath
         /\ ~fs_enumerate(fs, resolve_path(last'.path, wd)).ok)
        => /\ last'.ret = (IF last'.ptr THEN "fatal" ELSE "nil")
           /\ last'.errOut = "unwritten"
           /\ fs' = fs
     /\ last'.op \in {"removeItemAtPath", "contentsOfDirectoryAtPath"}
        => last'.errOut = "unwritten"]_vars

\* removeItemAtPath:error: was refused by the storage engine with an error asked for.
C7_Witness ==
  /\ last.op = "removeItemAtPath"
  /\ last.ptr
  /\ last.fsCalls # <<>>
  /\ last.ret = "fatal"

\* C8: copyItemAtPath whose source cannot be read panics without writing; one
\* whose destination cannot be written panics too; it never answers false, and
\* answers true only after both succeeded.
C8_CopyFailureIsFatal ==
  [][(last'.op = "copyItemAtPath" /\ last'.path # nilPath /\ last'.path2 # nilPath) =>
       LET r == fs_read(fs, resolve_path(last'.path, wd))
           w == fs_write(fs, resolve_path(last'.path2, wd), r.data)
       IN /\ ~r.ok => /\ last'.ret = "fatal"
                      /\ fs' = fs
                      /\ \A k \in DOMAIN last'.fsCalls : last'.fsCalls[k].fn # "write"
          /\ (r.ok /\ ~w.ok) => (last'.ret = "fatal" /\ fs' = fs)
          /\ last'.ret \in {"true", "fatal"}]_vars

\* copyItemAtPath panicked on a source that could not be read.
C8_Witness ==
  /\ last.op = "copyItemAtPath"
  /\ last.ret = "fatal"
  /\ Len(last.fsCalls) = 1
  /\ last.fsCalls[1].fn = "read"

\* C9 (as claimed): the legacy createDirectory call shape, given a path and asked
\* for intermediate directories, answers what the standard call shape answers
\* and leaves the storage as the standard call shape leaves it.
C9_LegacyEquivalent ==
  [][(/\ last'.op = "createDirectoryAtPath:path:"
      /\ last'.path # nilPath
      /\ last'.path2 = nilPath
      /\ last'.flag)
     => LET r == fs_create_dir(fs, resolve_path(last'.path, wd))
        IN last'.ret = Bool(r.ok) /\ fs' = r.fs]_vars

\* C10 (as claimed): a nil path makes the call answer false without any call to
\* the storage engine.
C10_NilPathAnswersFalse ==
  (/\ last.path = nilPath
   /\ ~last.attrs
   /\ \/ last.op \in {"fileExistsAtPath", "fileExistsAtPath:isDirectory:",
                       "createFileAtPath", "removeItemAtPath"}
      \/ last.op = "createDirectoryAtPath:attributes:" /\ last.flag)
  => (last.ret = "false" /\ last.fsCalls = <<>>)

\* Whether path starts with the components of prefix.
HasPrefix(path, prefix) ==
  Len(path) >= Len(prefix) /\ SubSeq(path, 1, Len(prefix)) = prefix

\* The search-path directories of the domain table: the application, document
\* and application-support directories, and the numeric alias of the document
\* directory.
SupportedTable ==
  {NSApplicationDirectory, NSDocumentDirectory, NSLibraryDirectory,
   NSApplicationSupportDirectory}

\* C11: NSSearchPathForDirectoriesInDomains returns a path exactly when it is
\* asked for a directory of the domain table with the user domain mask and
\* tilde expansion; it panics, returning nothing and resolving nothing, for any
\* other mask, without tilde expansion, and for any other directory; the alias
\* resolves to the path of the document directory.
C11_ResolveDomainRejects ==
  last.op = "NSSearchPathForDirectoriesInDomains" =>
    /\ last.ret \in {"list", "fatal"}
    /\ last.ret = "list" <=>
         /\ last.mask = NSUserDomainMask
         /\ last.flag
         /\ last.dir \in SupportedTable
    /\ last.ret = "fatal" => last.val = <<>>
    /\ (last.ret = "list" /\ last.dir \in {NSDocumentDirectory, NSLibraryDirectory})
         => last.val = << join(home, "Documents") >>

\* The document directory was asked for without tilde expansion, after a
\* resolution that succeeded, and the call panicked.
C11_Witness ==
  /\ last.op = "NSSearchPathForDirectoriesInDomains"
  /\ last.dir = NSDocumentDirectory
  /\ last.mask = NSUserDomainMask
  /\ ~last.flag
  /\ last.ret = "fatal"
  /\ resolved[NSLibraryDirectory].val # <<>>

\* C12 (as claimed): every path the resolver returns has the home directory as
\* a prefix.
C12_RootedAtHome ==
  /\ (last.op = "NSSearchPathForDirectoriesInDomains" /\ last.ret = "list")
       => HasPrefix(last.val[1], home)
  /\ last.op \in {"NSHomeDirectory", "NSTemporaryDirectory"}
       => HasPrefix(last.val, home)

\* C15: a search-path directory resolves to the path it resolved to the first
\* time, whatever ran in between, and resolving changes neither the storage
\* nor the working directory nor any enumerator.
C15_ResolutionDeterminism ==
  /\ []((last.op = "NSSearchPathForDirectoriesInDomains" /\ last.ret = "list")
          => (last.val = resolved[last.dir].val /\ last.fsCalls = <<>>))
  /\ [][last'.op = "NSSearchPathForDirectoriesInDomains"
          => UNCHANGED <<fs, wd, enums, home, default_manager, objects>>]_vars

\* A directory was resolved a second time, in another working directory than
\* the first time, after an enumerator was stepped.
C15_Witness ==
  /\ last.op = "NSSearchPathForDirectoriesInDomains"
  /\ last.ret = "list"
  /\ last.dir = NSDocumentDirectory
  /\ resolved[last.dir].wd # wd
  /\ \E i \in DOMAIN enums : enums[i].calls >= 1

\* C13: right after createDirectoryAtPath (intermediates asked for, no
\* attributes) answered true, the path exists and is a directory; when the
\* storage engine refuses, the call answers false and the storage is unchanged.
C13_CreateDirThenIsDir ==
  /\ []((last.op = "createDirectoryAtPath:attributes:" /\ last.ret = "true")
          => /\ res_exists(last.path)
             /\ res_is_dir(last.path)
             /\ fs_is_dir(fs, resolve_path(last.path, wd)))
  /\ [][(/\ last'.op = "createDirectoryAtPath:attributes:"
          /\ last'.path # nilPath
          /\ last'.flag
          /\ ~last'.attrs
          /\ ~fs_create_dir(fs, resolve_path(last'.path, wd)).ok)
         => (last'.ret = "false" /\ fs' = fs)]_vars

\* "/a/b" was created as a directory.
C13_Witness ==
  /\ last.op = "createDirectoryAtPath:attributes:"
  /\ last.path = <<"", "a", "b">>
  /\ last.ret = "true"
  /\ fs[<<"a", "b">>] = DirNode

\* C14 (as claimed): createFileAtPath with attributes, createDirectoryAtPath
\* with attributes and createDirectoryAtPath without intermediates panic before
\* any call to the storage engine.
C14_UnsupportedIsFatal ==
  (\/ last.op = "createFileAtPath" /\ last.attrs
   \/ last.op = "createDirectoryAtPath:attributes:" /\ (last.attrs \/ ~last.flag))
  => (last.ret = "fatal" /\ last.fsCalls = <<>>)

\* The length of the regular file at loc, 0 where there is none.
SizeAt(loc) == IF fs_is_file(fs, loc) THEN Len(Lookup(fs, loc).data) ELSE 0

C17_IsDirIsNotFile ==
  last.op = "fileExistsAtPath:isDirectory:" =>
    LET loc == resolve_path(last.path, wd)
        isDir == last.path # nilPath /\ ~fs_is_file(fs, loc)
    IN /\ last.ret = Bool(last.path # nilPath /\ fs_exists(fs, loc))
       /\ last.ret = Bool(res_exists(last.path))
       /\ last.ptr => last.isDirOut = Bool(isDir)
       /\ ~last.ptr => last.isDirOut = "unwritten"

\* A path that does not exist was reported as not existing and as a directory.
C17_Witness ==
  /\ last.op = "fileExistsAtPath:isDirectory:"
  /\ last.path # nilPath
  /\ last.ptr
  /\ last.ret = "false"
  /\ last.isDirOut = "true"

\* C20: when copyItemAtPath answers true, the read and the write both
\* succeeded, the destination holds what the source held when the call started,
\* the source holds it still, and nothing but the destination was changed.
C20_CopyIsExact ==
  [][(last'.op = "copyItemAtPath" /\ last'.ret = "true") =>
       LET sloc == resolve_path(last'.path, wd)
           dloc == resolve_path(last'.path2, wd)
           r == fs_read(fs, sloc)
       IN /\ r.ok
          /\ fs_write(fs, dloc, r.data).ok
          /\ Lookup(fs', dloc) = FileNode(r.data)
          /\ Lookup(fs', sloc) = FileNode(r.data)
          /\ \A n \in Nodes : n # dloc.segs => fs'[n] = fs[n]
          /\ UNCHANGED Rest]_vars

\* A one-byte file was copied to another path.
C20_Witness ==
  /\ last.op = "copyItemAtPath"
  /\ last.ret = "true"
  /\ resolve_path(last.path, wd) # resolve_path(last.path2, wd)
  /\ Lookup(fs, resolve_path(last.path, wd)) = FileNode(<<7>>)
  /\ Lookup(fs, resolve_path(last.path2, wd)) = FileNode(<<7>>)

\* C18: the k-th nextObject call on an enumerator returns the k-th entry of the
\* listing captured at its creation, and what remains of the queue is that
\* listing without its first k entries.
C18_InOrderNoSkip ==
  \A i \in DOMAIN enums :
    LET e == enums[i]
        N == Len(e.snapshot)
        k == IF e.calls < N THEN e.calls ELSE N
    IN /\ e.iterator = SubSeq(e.snapshot, k + 1, N)
       /\ (IsNextOn(i) /\ e.calls >= 1 /\ e.calls <= N)
            => (last.ret = "str" /\ last.val = e.snapshot[e.calls])

\* The second call returned the second entry of a listing of three.
C18_Witness ==
  \E i \in DOMAIN enums :
    /\ Len(enums[i].snapshot) = 3
    /\ enums[i].calls = 2
    /\ IsNextOn(i)
    /\ last.val = enums[i].snapshot[2]
    /\ Len(enums[i].iterator) = 1

\* C19: the queue of an enumerator changes only in a nextObject sent to that
\* enumerator, which takes its front entry; no other call changes it or takes
\* the enumerator away.
C19_OnlyOwnNext ==
  [][\A i \in DOMAIN enums :
       /\ i \in DOMAIN enums'
       /\ enums'[i].id = enums[i].id
       /\ enums'[i].iterator # enums[i].iterator
            => /\ last'.op = "nextObject"
               /\ last'.obj = enums[i].id
               /\ enums'[i].iterator = Tail(enums[i].iterator)]_vars

\* Of two enumerators of the same directory with the same listing, one has not
\* been stepped and the other just returned an entry that is no longer in the
\* storage.
C19_Witness ==
  \E i, j \in DOMAIN enums :
    /\ i # j
    /\ enums[i].snapshot = enums[j].snapshot
    /\ enums[j].calls = 0
    /\ enums[j].iterator = enums[j].snapshot
    /\ IsNextOn(i)
    /\ last.ret = "str"
    /\ last.val \notin Entries(Subtree(fs, enums[i].base, enums[i].base, 1))

====
